---------------------------- MODULE Spec2Model ----------------------------
(***************************************************************************)
(* A model of objpool (src/src/lib.rs): a pool of lazily constructed items *)
(* guarded by one Mutex<Items<T>> and one Condvar.  Threads call get /      *)
(* get_timeout (both get_internal) and drop the Item they obtained         *)
(* (Drop for Item -> Pool::put).                                           *)
(*                                                                         *)
(* Every thread is a program counter over the lines of get_internal and    *)
(* put; the mutex is explicit, and the code a thread runs between two      *)
(* operations on the mutex or the condition variable is one action.  Items *)
(* are identified by the value `count` had right after the increment that  *)
(* preceded their construction.  Time is kept per call: the clock's        *)
(* reading since `start`, and the time left of a wait_timeout.             *)
(*                                                                         *)
(* Spec is the pool with its checkouts and returns.  WorkSpec adds threads *)
(* that increment the items they hold (Deref/DerefMut), DebugSpec threads  *)
(* that format the pool (Debug); neither step changes Items.  FairSpec is  *)
(* Spec with the scheduling the liveness properties need, and CrowdSpec    *)
(* is FairSpec with one more thread that checks out.                       *)
(***************************************************************************)
EXTENDS Integers, Sequences, FiniteSets, TLC

\* ----------------------------------------------------------------- bounds
NumThreads == 2          \* threads that check out in every specification
MaxCap     == 2          \* largest max_items given to the builder
MaxDur     == 1          \* largest duration given to get_timeout
MaxCycles  == 1          \* increments a thread makes through its handles

Threads == 1..(NumThreads + 1)    \* and one that checks out in CrowdSpec only
Users == 1..NumThreads
NoThread == 0            \* the mutex is free
NoItem == 0              \* Item.item = None
Ids == 1..(NumThreads + MaxCap)   \* item ids: more than count ever reaches
Initial == 0             \* the value the factory gives an item (|| 0)
None == <<>>             \* Option::None; Some(x) is <<x>>
Some(x) == <<x>>

VARIABLES
    available,   \* Items.available: Vec<T>, a sequence of item ids
    count,       \* Items.count
    max,         \* Items.max: None or Some(n)
    lock,        \* holder of Pool.items (the mutex), NoThread when free
    pc,          \* pc[t]: where thread t is
    dur,         \* dur[t]: the `duration` argument of t's get_internal call
    held,        \* held[t]: the item of t's handle (moved to put by take())
    elapsed,     \* elapsed[t]: the time since `start` (line 55)
    left,        \* left[t]: the time left before t's wait_timeout expires
    timedOut,    \* timedOut[t]: wait_result.timed_out() of t's last wait
    val,         \* val[id]: the T value of item id
    tmp,         \* tmp[t]: the value t loaded through its handle, if any
    cycles,      \* cycles[t]: the increments t has stored so far
    snap,        \* what the last {:?} of the pool showed, None before it
    \* ---- history (observers only, never read by the actions' guards)
    needRet,     \* t took the lock on a saturated pool, no item pushed since
    retInTime,   \* an item was pushed while t waited, before t's deadline
    fastAtLock,  \* when t took the lock an item was free or there was room
    touched,     \* a step of t's current call changed Items
    errEarly,    \* t returned Err before its duration had elapsed
    firstDone,   \* some checkout has returned an Item
    tally        \* Some(<<k, r>>) while all that happened is k checkouts
                 \* and then r returns, None afterwards

poolVars == <<available, count, max>>
useVars  == <<val, tmp, cycles, snap>>
histVars == <<needRet, retInTime, fastAtLock, touched, errEarly, firstDone>>
vars     == <<available, count, max, lock, pc, dur, held, elapsed, left,
              timedOut, val, tmp, cycles, snap, needRet, retInTime,
              fastAtLock, touched, errEarly, firstDone, tally>>

\* ---------------------------------------------------------------- helpers
\* mutant of PopLast: the popped element stays in the vector
PopLastKeeps(s) == s

\* mutant of Top: the oldest free item is handed out
TopFirst(s) == s[1]

\* Vec::pop: the last element, and the vector without it
Top(s) == s[Len(s)]

PopLast(s) == SubSeq(s, 1, Len(s) - 1)

\* mutant of Push: the item is pushed twice
PushTwice(s, x) == Append(Append(s, x), x)

\* Vec::push
Push(s, x) == Append(s, x)

\* mutants of BelowMax: `<=` for `<`, and a limit one too low
BelowMaxInclusive(c, m) == IF m = None THEN TRUE ELSE c <= m[1]

BelowMaxStrict(c, m) == IF m = None THEN TRUE ELSE c + 1 < m[1]

\* mutant of BelowMax: unwrap_or(0), no capacity taken as capacity 0
BelowMaxUnwrapZero(c, m) == c < (IF m = None THEN 0 ELSE m[1])

\* items.count < items.max.unwrap_or(usize::MAX); count never nears usize::MAX
BelowMax(c, m) == IF m = None THEN TRUE ELSE c < m[1]

\* start.elapsed(), Err(_) => 0: the clock's reading, or 0 when the read fails
ElapsedReads(t) == {elapsed[t], 0}

\* elapsed > duration
Expired(e, d) == e > d

\* mutant of Remaining: the wait is given `elapsed`
RemainingElapsed(d, e) == e

\* duration - elapsed
Remaining(d, e) == d - e

\* the threads blocked on item_available
Waiters == {w \in Threads : pc[w] = "wait"}

\* wait_timeout's result for a waiter that was woken: not timed out, or,
\* once its timeout has passed, possibly timed out as well
WokenResults(w) ==
    IF dur[w] # None /\ left[w] = 0 THEN {FALSE, TRUE} ELSE {FALSE}

\* the pool has a capacity and has constructed that many items
AtCapacity == max # None /\ count >= max[1]

InWaitBranch(t) == pc[t] \in {"get56", "wait", "woken", "get68"}

\* a reading of the clock later than every duration is kept as this one
Late == MaxDur + 1

\* a step of t: did it change Items?
Touch(t) ==
    touched' = [touched EXCEPT ![t] = @ \/ (poolVars' # poolVars)]

Pcs == {"idle", "get47", "get53", "get56", "wait", "woken", "get68",
        "holding", "err", "put88", "dbg95"}

TypeOK ==
    /\ available \in Seq(1..(NumThreads + MaxCap))
    /\ count \in Nat
    /\ max \in {None} \cup {Some(n) : n \in 0..MaxCap}
    /\ lock \in Threads \cup {NoThread}
    /\ pc \in [Threads -> Pcs]
    /\ dur \in [Threads -> {None} \cup {Some(d) : d \in 0..MaxDur}]
    /\ held \in [Threads -> Nat]
    /\ elapsed \in [Threads -> 0..Late]
    /\ left \in [Threads -> 0..MaxDur]
    /\ timedOut \in [Threads -> BOOLEAN]
    /\ val \in [Ids -> 0..(NumThreads * MaxCycles)]
    /\ tmp \in [Threads -> {None} \cup {Some(v) : v \in 0..(NumThreads * MaxCycles)}]
    /\ cycles \in [Threads -> 0..MaxCycles]
    /\ snap \in {None} \cup {Some(<<a, c, m>>) :
                     a \in 0..(NumThreads + MaxCap), c \in 0..(NumThreads + MaxCap),
                     m \in {None} \cup {Some(n) : n \in 0..MaxCap}}

\* ------------------------------------------------------------------- Init
\* Pool::new_internal (lines 19-35) with max_items from Pool::new (None) or
\* from PoolBuilder::max_items
Init ==
    /\ available = <<>>
    /\ count = 0
    /\ max \in {None} \cup {Some(n) : n \in 0..MaxCap}
    /\ lock = NoThread
    /\ pc = [t \in Threads |-> "idle"]
    /\ dur = [t \in Threads |-> None]
    /\ held = [t \in Threads |-> NoItem]
    /\ elapsed = [t \in Threads |-> 0]
    /\ left = [t \in Threads |-> 0]
    /\ timedOut = [t \in Threads |-> FALSE]
    /\ val = [id \in Ids |-> Initial]
    /\ tmp = [t \in Threads |-> None]
    /\ cycles = [t \in Threads |-> 0]
    /\ snap = None
    /\ needRet = [t \in Threads |-> FALSE]
    /\ retInTime = [t \in Threads |-> FALSE]
    /\ fastAtLock = [t \in Threads |-> FALSE]
    /\ touched = [t \in Threads |-> FALSE]
    /\ errEarly = [t \in Threads |-> FALSE]
    /\ firstDone = FALSE
    /\ tally = Some(<<0, 0>>)

\* ---------------------------------------------------------------- returns
\* lines 80-83: Ok(Item { item: Some(item), .. }); the guard, if still held,
\* is released when get_internal returns
ReturnOk(t, item) ==
    /\ pc' = [pc EXCEPT ![t] = "holding"]
    /\ held' = [held EXCEPT ![t] = item]
    /\ lock' = IF lock = t THEN NoThread ELSE lock
    /\ dur' = [dur EXCEPT ![t] = None]
    /\ elapsed' = [elapsed EXCEPT ![t] = 0]
    /\ firstDone' = TRUE
    /\ tally' = IF tally # None /\ tally[1][2] = 0
                THEN Some(<<tally[1][1] + 1, 0>>) ELSE None
    /\ UNCHANGED <<left, timedOut, errEarly>>

\* mutant of ReturnErr: the timed-out call gives a slot back
ReturnErrFreesSlot(t) ==
    /\ pc' = [pc EXCEPT ![t] = "err"]
    /\ lock' = NoThread
    /\ count' = count - 1
    /\ errEarly' = [errEarly EXCEPT ![t] = elapsed[t] < dur[t][1]]
    /\ elapsed' = [elapsed EXCEPT ![t] = 0]
    /\ timedOut' = [timedOut EXCEPT ![t] = FALSE]
    /\ UNCHANGED <<available, max, held, dur, left, firstDone>>
    /\ UNCHANGED tally

\* lines 64 and 69: return Err(TimeoutError); the guard is released
ReturnErr(t) ==
    /\ pc' = [pc EXCEPT ![t] = "err"]
    /\ lock' = NoThread
    /\ errEarly' = [errEarly EXCEPT ![t] = elapsed[t] < dur[t][1]]
    /\ elapsed' = [elapsed EXCEPT ![t] = 0]
    /\ timedOut' = [timedOut EXCEPT ![t] = FALSE]
    /\ UNCHANGED <<poolVars, held, dur, left, firstDone>>
    /\ UNCHANGED tally

\* ---------------------------------------------------------------- actions
\* get (37-39) with duration None, get_timeout (41-43) with Some(d), up to
\* line 46: self.items.lock() (a call that finds the mutex taken blocks
\* there, having done nothing)
Call(t, d) ==
    /\ pc[t] \in {"idle", "err"}
    /\ lock = NoThread
    /\ lock' = t
    /\ pc' = [pc EXCEPT ![t] = "get47"]
    /\ dur' = [dur EXCEPT ![t] = d]
    /\ needRet' = [needRet EXCEPT ![t] = AtCapacity /\ available = <<>>]
    /\ fastAtLock' = [fastAtLock EXCEPT ![t] = available # <<>> \/ ~AtCapacity]
    /\ retInTime' = [retInTime EXCEPT ![t] = FALSE]
    /\ errEarly' = [errEarly EXCEPT ![t] = FALSE]
    /\ touched' = [touched EXCEPT ![t] = FALSE]
    /\ UNCHANGED <<poolVars, held, elapsed, left, timedOut, firstDone>>
    /\ UNCHANGED <<useVars, tally>>

Get(t) == Call(t, None)

GetTimeout(t) == \E d \in 0..MaxDur : Call(t, Some(d))

\* lines 47-48: available.pop() is Some(item)
PopFree(t) ==
    /\ pc[t] = "get47"
    /\ available # <<>>
    /\ available' = PopLast(available)
    /\ ReturnOk(t, Top(available))
    /\ UNCHANGED <<count, max, needRet, retInTime, fastAtLock>>
    /\ UNCHANGED useVars
    /\ Touch(t)

\* mutant of Reserve: the capacity is tested before the free items
ReserveFirst(t) ==
    /\ pc[t] = "get47"
    /\ BelowMax(count, max)
    /\ count' = count + 1
    /\ lock' = NoThread
    /\ pc' = [pc EXCEPT ![t] = "get53"]
    /\ held' = [held EXCEPT ![t] = count + 1]
    /\ dur' = [dur EXCEPT ![t] = None]
    /\ UNCHANGED <<available, max, elapsed, left, timedOut,
                   needRet, retInTime, fastAtLock, errEarly, firstDone>>
    /\ UNCHANGED <<useVars, tally>>
    /\ Touch(t)

\* mutant of Reserve: the guard is kept while the factory runs
ReserveLocked(t) ==
    /\ pc[t] = "get47"
    /\ available = <<>>
    /\ BelowMax(count, max)
    /\ count' = count + 1
    /\ pc' = [pc EXCEPT ![t] = "get53"]
    /\ held' = [held EXCEPT ![t] = count + 1]
    /\ dur' = [dur EXCEPT ![t] = None]
    /\ UNCHANGED <<available, max, lock, elapsed, left, timedOut,
                   needRet, retInTime, fastAtLock, errEarly, firstDone>>
    /\ UNCHANGED <<useVars, tally>>
    /\ Touch(t)

\* lines 50-52: nothing free, count < max: count += 1; drop(items)
Reserve(t) ==
    /\ pc[t] = "get47"
    /\ available = <<>>
    /\ BelowMax(count, max)
    /\ count' = count + 1
    /\ lock' = NoThread
    /\ pc' = [pc EXCEPT ![t] = "get53"]
    /\ held' = [held EXCEPT ![t] = count + 1]
    /\ dur' = [dur EXCEPT ![t] = None]
    /\ UNCHANGED <<available, max, elapsed, left, timedOut,
                   needRet, retInTime, fastAtLock, errEarly, firstDone>>
    /\ UNCHANGED <<useVars, tally>>
    /\ Touch(t)

\* mutant of Create: count is incremented again once the factory has run
CreateCounts(t) ==
    /\ pc[t] = "get53"
    /\ val' = [val EXCEPT ![held[t]] = Initial]
    /\ count' = count + 1
    /\ ReturnOk(t, held[t])
    /\ UNCHANGED <<available, max, needRet, retInTime, fastAtLock, tmp, cycles, snap>>
    /\ Touch(t)

\* line 53 and 80-83: (self.create)() outside the lock, wrapped in an Item
Create(t) ==
    /\ pc[t] = "get53"
    /\ val' = [val EXCEPT ![held[t]] = Initial]
    /\ ReturnOk(t, held[t])
    /\ UNCHANGED <<poolVars, needRet, retInTime, fastAtLock, tmp, cycles, snap>>
    /\ Touch(t)

\* lines 54-55: nothing free, count at max: let start = SystemTime::now()
EnterWait(t) ==
    /\ pc[t] = "get47"
    /\ available = <<>>
    /\ ~BelowMax(count, max)
    /\ elapsed' = [elapsed EXCEPT ![t] = 0]
    /\ pc' = [pc EXCEPT ![t] = "get56"]
    /\ UNCHANGED <<poolVars, lock, dur, held, left, timedOut,
                   needRet, retInTime, fastAtLock, errEarly, firstDone>>
    /\ UNCHANGED <<useVars, tally>>
    /\ Touch(t)

\* lines 56 and 76: the loop ends, available.pop().unwrap()
LoopPop(t) ==
    /\ pc[t] = "get56"
    /\ available # <<>>
    /\ available' = PopLast(available)
    /\ ReturnOk(t, Top(available))
    /\ UNCHANGED <<count, max, needRet, retInTime, fastAtLock>>
    /\ UNCHANGED useVars
    /\ Touch(t)

\* lines 56, 73: duration is None: item_available.wait(items)
Wait(t) ==
    /\ pc[t] = "get56"
    /\ available = <<>>
    /\ dur[t] = None
    /\ pc' = [pc EXCEPT ![t] = "wait"]
    /\ lock' = NoThread
    /\ UNCHANGED <<poolVars, dur, held, elapsed, left, timedOut,
                   needRet, retInTime, fastAtLock, errEarly, firstDone>>
    /\ UNCHANGED <<useVars, tally>>
    /\ Touch(t)

\* lines 56-64: elapsed > duration: return Err(TimeoutError)
ExpiredErr(t) ==
    /\ pc[t] = "get56"
    /\ available = <<>>
    /\ dur[t] # None
    /\ \E e \in ElapsedReads(t) : Expired(e, dur[t][1])
    /\ ReturnErr(t)
    /\ UNCHANGED <<needRet, retInTime, fastAtLock>>
    /\ UNCHANGED useVars
    /\ Touch(t)

\* lines 56-67: item_available.wait_timeout(items, duration - elapsed)
WaitTimeout(t) ==
    /\ pc[t] = "get56"
    /\ available = <<>>
    /\ dur[t] # None
    /\ \E e \in ElapsedReads(t) :
        /\ ~Expired(e, dur[t][1])
        /\ left' = [left EXCEPT ![t] = Remaining(dur[t][1], e)]
    /\ pc' = [pc EXCEPT ![t] = "wait"]
    /\ lock' = NoThread
    /\ UNCHANGED <<poolVars, dur, held, elapsed, timedOut,
                   needRet, retInTime, fastAtLock, errEarly, firstDone>>
    /\ UNCHANGED <<useVars, tally>>
    /\ Touch(t)

\* a wait_timeout whose time has run out
Timeout(t) ==
    /\ pc[t] = "wait"
    /\ dur[t] # None
    /\ left[t] = 0
    /\ pc' = [pc EXCEPT ![t] = "woken"]
    /\ timedOut' = [timedOut EXCEPT ![t] = TRUE]
    /\ UNCHANGED <<poolVars, lock, dur, held, elapsed, left, histVars>>
    /\ UNCHANGED <<useVars, tally>>

\* a wake-up nobody sent for an item: a spurious wake-up of the condition
\* variable, or a notify_one with no push (tests::pool_get_timeout_err)
Spurious(t) ==
    /\ pc[t] = "wait"
    /\ pc' = [pc EXCEPT ![t] = "woken"]
    /\ UNCHANGED <<poolVars, lock, dur, held, elapsed, left, timedOut, histVars>>
    /\ UNCHANGED <<useVars, tally>>

\* wait / wait_timeout re-acquire the mutex before they return (67, 73)
Reacquire(t) ==
    /\ pc[t] = "woken"
    /\ lock = NoThread
    /\ lock' = t
    /\ \E r \in WokenResults(t) :
         timedOut' = [timedOut EXCEPT ![t] = @ \/ r]
    /\ left' = [left EXCEPT ![t] = 0]
    /\ pc' = [pc EXCEPT ![t] = IF dur[t] = None THEN "get56" ELSE "get68"]
    /\ UNCHANGED <<poolVars, dur, held, elapsed, histVars>>
    /\ UNCHANGED <<useVars, tally>>

\* lines 68-69: wait_result.timed_out(): return Err(TimeoutError)
TimedOutErr(t) ==
    /\ pc[t] = "get68"
    /\ timedOut[t]
    /\ ReturnErr(t)
    /\ UNCHANGED <<needRet, retInTime, fastAtLock>>
    /\ UNCHANGED useVars
    /\ Touch(t)

\* lines 68-71: not timed out: back to the loop's test
Recheck(t) ==
    /\ pc[t] = "get68"
    /\ ~timedOut[t]
    /\ pc' = [pc EXCEPT ![t] = "get56"]
    /\ UNCHANGED <<poolVars, lock, dur, held, elapsed, left, timedOut,
                   needRet, retInTime, fastAtLock, errEarly, firstDone>>
    /\ UNCHANGED <<useVars, tally>>
    /\ Touch(t)

\* lines 163-166 and 87: drop() hands self.item.take().unwrap() to put:
\* self.items.lock().unwrap().available.push(item); the guard is dropped at
\* the end of the statement
Drop(t) ==
    /\ pc[t] = "holding"
    /\ tmp[t] = None
    /\ lock = NoThread
    /\ available' = Push(available, held[t])
    /\ held' = [held EXCEPT ![t] = NoItem]
    /\ pc' = [pc EXCEPT ![t] = "put88"]
    /\ needRet' = [u \in Threads |-> FALSE]
    /\ retInTime' = [u \in Threads |->
                       IF u = t THEN FALSE
                       ELSE retInTime[u] \/ (InWaitBranch(u) /\ dur[u] # None
                                             /\ elapsed[u] < dur[u][1])]
    /\ fastAtLock' = [fastAtLock EXCEPT ![t] = FALSE]
    /\ touched' = [touched EXCEPT ![t] = FALSE]
    /\ tally' = IF tally # None
                THEN Some(<<tally[1][1], tally[1][2] + 1>>) ELSE None
    /\ UNCHANGED <<count, max, lock, dur, elapsed, left, timedOut, errEarly, firstDone>>
    /\ UNCHANGED useVars

\* mutant of NotifyOne: put wakes nobody
NotifyForgotten(t) ==
    /\ pc[t] = "put88"
    /\ Waiters # {}
    /\ pc' = [pc EXCEPT ![t] = "idle"]
    /\ UNCHANGED <<poolVars, lock, dur, held, elapsed, left, timedOut, histVars>>
    /\ UNCHANGED <<useVars, tally>>

\* line 88: item_available.notify_one() with a thread blocked on it
NotifyOne(t) ==
    /\ pc[t] = "put88"
    /\ \E w \in Waiters :
         pc' = [pc EXCEPT ![t] = "idle", ![w] = "woken"]
    /\ UNCHANGED <<poolVars, lock, dur, held, elapsed, left, timedOut, histVars>>
    /\ UNCHANGED <<useVars, tally>>

\* line 88: item_available.notify_one() with no thread blocked on it
NotifyNone(t) ==
    /\ pc[t] = "put88"
    /\ Waiters = {}
    /\ pc' = [pc EXCEPT ![t] = "idle"]
    /\ UNCHANGED <<poolVars, lock, dur, held, elapsed, left, timedOut, histVars>>
    /\ UNCHANGED <<useVars, tally>>

\* time passes: the clock of every call that reads it (`start` is never
\* read when duration is None) shows one more, up to Late, and every running
\* wait_timeout has one less to wait
Tick ==
    /\ elapsed' = [t \in Threads |->
                     IF InWaitBranch(t) /\ dur[t] # None /\ elapsed[t] < Late
                     THEN elapsed[t] + 1 ELSE elapsed[t]]
    /\ left' = [t \in Threads |->
                  IF pc[t] = "wait" /\ left[t] > 0 THEN left[t] - 1 ELSE left[t]]
    /\ <<elapsed', left'>> # <<elapsed, left>>
    /\ UNCHANGED <<poolVars, lock, pc, dur, held, timedOut, histVars>>
    /\ UNCHANGED <<useVars, tally>>

\* lines 151-161, the read of `*item += 1`: the value behind the handle's
\* reference is loaded
DerefLoad(t) ==
    /\ pc[t] = "holding"
    /\ tmp[t] = None
    /\ cycles[t] < MaxCycles
    /\ tmp' = [tmp EXCEPT ![t] = Some(val[held[t]])]
    /\ UNCHANGED <<poolVars, lock, pc, dur, held, elapsed, left, timedOut,
                   val, cycles, snap, histVars>>
    /\ UNCHANGED tally

\* lines 157-161, the write of `*item += 1`: the loaded value plus one is
\* stored behind the reference deref_mut gave
DerefStore(t) ==
    /\ pc[t] = "holding"
    /\ tmp[t] # None
    /\ val' = [val EXCEPT ![held[t]] = tmp[t][1] + 1]
    /\ tmp' = [tmp EXCEPT ![t] = None]
    /\ cycles' = [cycles EXCEPT ![t] = @ + 1]
    /\ UNCHANGED <<poolVars, lock, pc, dur, held, elapsed, left, timedOut,
                   snap, histVars>>
    /\ UNCHANGED tally

\* lines 92-95: {:?} of the pool takes the lock, self.items.lock()
DebugLock(t) ==
    /\ pc[t] = "idle"
    /\ lock = NoThread
    /\ lock' = t
    /\ pc' = [pc EXCEPT ![t] = "dbg95"]
    /\ UNCHANGED <<poolVars, dur, held, elapsed, left, timedOut, useVars,
                   histVars, tally>>

\* mutant of DebugFmt: count is the one read for the snapshot before
DebugFmtTorn(t) ==
    /\ pc[t] = "dbg95"
    /\ snap' = Some(<<Len(available), IF snap = None THEN 0 ELSE snap[1][2], max>>)
    /\ lock' = NoThread
    /\ pc' = [pc EXCEPT ![t] = "idle"]
    /\ UNCHANGED <<poolVars, dur, held, elapsed, left, timedOut,
                   val, tmp, cycles, histVars, tally>>

\* lines 126-134 under the guard of line 95: available.len(), count and max
\* of Items are formatted; the guard is dropped when fmt returns
DebugFmt(t) ==
    /\ pc[t] = "dbg95"
    /\ snap' = Some(<<Len(available), count, max>>)
    /\ lock' = NoThread
    /\ pc' = [pc EXCEPT ![t] = "idle"]
    /\ UNCHANGED <<poolVars, dur, held, elapsed, left, timedOut,
                   val, tmp, cycles, histVars, tally>>

Next ==
    \/ \E t \in Users : Get(t)
    \/ \E t \in Users : GetTimeout(t)
    \/ \E t \in Threads : PopFree(t)
    \/ \E t \in Threads : Reserve(t)
    \/ \E t \in Threads : Create(t)
    \/ \E t \in Threads : EnterWait(t)
    \/ \E t \in Threads : LoopPop(t)
    \/ \E t \in Threads : Wait(t)
    \/ \E t \in Threads : ExpiredErr(t)
    \/ \E t \in Threads : WaitTimeout(t)
    \/ \E t \in Threads : Timeout(t)
    \/ \E t \in Threads : Spurious(t)
    \/ \E t \in Threads : Reacquire(t)
    \/ \E t \in Threads : TimedOutErr(t)
    \/ \E t \in Threads : Recheck(t)
    \/ \E t \in Threads : Drop(t)
    \/ \E t \in Threads : NotifyOne(t)
    \/ \E t \in Threads : NotifyNone(t)
    \/ Tick

Spec == Init /\ [][Next]_vars

\* the pool with threads that increment the items they check out
WorkNext ==
    \/ Next
    \/ \E t \in Threads : DerefLoad(t)
    \/ \E t \in Threads : DerefStore(t)

WorkSpec == Init /\ [][WorkNext]_vars

\* the pool with threads that format it with {:?}
DebugNext ==
    \/ Next
    \/ \E t \in Users : DebugLock(t)
    \/ \E t \in Threads : DebugFmt(t)

DebugSpec == Init /\ [][DebugNext]_vars

\* every step of a thread that the scheduler owes it: all but the calls, which
\* the program may never make, and the spurious wake-ups; a handle is
\* eventually dropped, however often the mutex is found taken
ThreadStep(t) ==
    \/ PopFree(t) \/ Reserve(t) \/ Create(t) \/ EnterWait(t) \/ LoopPop(t)
    \/ Wait(t) \/ ExpiredErr(t) \/ WaitTimeout(t) \/ Timeout(t)
    \/ Reacquire(t) \/ TimedOutErr(t) \/ Recheck(t) \/ Drop(t)
    \/ NotifyOne(t) \/ NotifyNone(t)

FairSpec ==
    /\ Init
    /\ [][Next]_vars
    /\ \A t \in Threads : WF_vars(ThreadStep(t))
    /\ \A t \in Threads : SF_vars(Drop(t))
    /\ WF_vars(Tick)

\* the pool with one more thread that checks out, under the same scheduling
CrowdNext ==
    \/ Next
    \/ \E t \in Threads \ Users : Get(t)
    \/ \E t \in Threads \ Users : GetTimeout(t)

CrowdSpec ==
    /\ Init
    /\ [][CrowdNext]_vars
    /\ \A t \in Threads : WF_vars(ThreadStep(t))
    /\ \A t \in Threads : SF_vars(Drop(t))
    /\ WF_vars(Tick)

\* ------------------------------------------------------------- properties
\* how often item id occurs in the sequence s
Occ(id, s) == Cardinality({i \in 1..Len(s) : s[i] = id})

Holders(id) == {t \in Threads : pc[t] = "holding" /\ held[t] = id}

Builders(id) == {t \in Threads : pc[t] = "get53" /\ held[t] = id}

\* a get() call in progress
InGet(t) == pc[t] \in {"get47", "get53", "get56", "wait", "woken"} /\ dur[t] = None

\* a checkout of another thread in progress
OtherInCall(t) ==
    \E u \in Threads \ {t} :
        pc[u] \in {"get47", "get53", "get56", "wait", "woken", "get68"}

\* C1: with capacity N, the items free, checked out or under construction
\* are at most N, and 0 <= |available| <= count <= N
CapacityBound ==
    max # None =>
        /\ Len(available)
             + Cardinality({t \in Threads : pc[t] = "holding"})
             + Cardinality({t \in Threads : pc[t] = "get53"}) <= max[1]
        /\ 0 <= Len(available)
        /\ Len(available) <= count
        /\ count <= max[1]

\* C1 witness: a pool at capacity with a thread that holds the item and
\* another one blocked
CapacityBoundWitness ==
    /\ max = Some(1)
    /\ count = 1
    /\ \E t, u \in Threads : pc[t] = "holding" /\ pc[u] = "wait"

\* C2: every constructed item is free exactly once or owned by exactly one
\* handle, never both, never twice; an item under construction is neither
ItemOwnedOnce ==
    \A id \in 1..count :
        /\ Occ(id, available) + Cardinality(Holders(id)) + Cardinality(Builders(id)) = 1
        /\ Cardinality(Builders(id)) = 1 => Occ(id, available) = 0 /\ Holders(id) = {}

\* C2 witness: an item was returned and taken by a thread other than the
\* waiter woken for it
ItemOwnedOnceWitness ==
    \E t, u \in Threads :
        /\ pc[t] = "holding"
        /\ pc[u] = "woken"
        /\ available = <<>>
        /\ count = 1

\* C3: an item enters available only in the drop of the handle that holds
\* it, once, and a handle ends only by that push
ReturnedExactlyOnce ==
    [][ /\ \A id \in 1..count :
             Occ(id, available') > Occ(id, available) =>
                 \E t \in Threads :
                     /\ pc[t] = "holding" /\ held[t] = id
                     /\ pc'[t] = "put88" /\ held'[t] = NoItem
                     /\ available' = available \o <<id>>
        /\ \A t \in Threads :
             (pc[t] = "holding" /\ pc'[t] # "holding") =>
                 /\ available' = available \o <<held[t]>>
                 /\ held'[t] = NoItem
                 /\ pc'[t] = "put88"
      ]_vars

\* C3 witness: a handle was dropped and its item is free
ReturnedExactlyOnceWitness ==
    \E t \in Threads :
        /\ pc[t] = "put88"
        /\ held[t] = NoItem
        /\ Len(available) = 1
        /\ max = Some(1)

\* C4: a checkout that began on a saturated pool with nothing free obtains
\* no item (and no slot) before an item has been returned
BlockedUntilReturn ==
    \A t \in Threads : pc[t] \in {"holding", "get53"} => ~needRet[t]

\* C4 witness: a checkout that began on a saturated pool finds, back from
\* its wait, the item that was returned
BlockedUntilReturnWitness ==
    \E t \in Threads :
        /\ pc[t] = "get56"
        /\ ~fastAtLock[t]
        /\ ~needRet[t]
        /\ available # <<>>
        /\ max = Some(1)

TimeoutNotEarly ==
    \A t \in Threads :
        /\ pc[t] = "err" => ~errEarly[t]
        /\ needRet[t] => pc[t] \in {"get47", "get56", "wait", "woken", "get68", "err"}

\* C6 witness: a get_timeout with a positive duration has failed on a
\* saturated pool on which nothing was returned
TimeoutNotEarlyWitness ==
    \E t \in Threads :
        /\ pc[t] = "err"
        /\ dur[t] # Some(0)
        /\ needRet[t]
        /\ count = 1

\* C7: a get_timeout that waits on a saturated pool while an item is
\* returned before its deadline does not return TimeoutError
ReturnInTimeSucceeds ==
    \A t \in Threads : pc[t] = "err" => ~retInTime[t]

\* C8: a get_timeout(0) that takes the lock with an item free or with room
\* to construct goes on to return a handle, and one that returns
\* TimeoutError took the lock on a saturated pool with nothing free
ZeroTimeoutFastPath ==
    /\ [][ \A t \in Threads :
             (pc[t] = "get47" /\ dur[t] = Some(0) /\ fastAtLock[t]) =>
                 pc'[t] \in {"get47", "holding", "get53"} ]_vars
    /\ [][ \A t \in Threads :
             pc[t] = "get53" => pc'[t] \in {"get53", "holding"} ]_vars
    /\ [](\A t \in Threads :
             (dur[t] = Some(0) /\ fastAtLock[t]) => pc[t] = "get47")

\* C8 witness: a get_timeout(0) holds the lock while an item is free and
\* another thread holds the other item
ZeroTimeoutFastPathWitness ==
    \E t, u \in Threads :
        /\ pc[t] = "get47"
        /\ dur[t] = Some(0)
        /\ available # <<>>
        /\ pc[u] = "holding"

ReuseBeforeConstruct ==
    /\ [][ count' # count =>
             /\ available = <<>>
             /\ count' = count + 1
             /\ \E t \in Threads : pc[t] = "get47" /\ pc'[t] = "get53" ]_vars
    /\ []((max = Some(1) /\ firstDone) => count = 1)

\* C10 witness: with capacity 1, the item one thread returned is held by
\* another
ReuseBeforeConstructWitness ==
    \E t, u \in Threads :
        /\ max = Some(1)
        /\ pc[t] = "holding"
        /\ pc[u] = "put88"
        /\ count = 1

\* the sum of f over 1..n
RECURSIVE SumTo(_, _)
SumTo(f, n) == IF n = 0 THEN 0 ELSE f[n] + SumTo(f, n - 1)

\* C11: no update is lost and no item is mutated by two threads at once: the
\* values of all items add up to the increments stored, so that K threads
\* that have each finished M cycles leave a sum of K*M
NoLostUpdate ==
    /\ SumTo(val, count) = SumTo(cycles, NumThreads + 1)
    /\ (\A t \in Users : cycles[t] = MaxCycles /\ pc[t] = "idle") =>
           SumTo(val, count) = NumThreads * MaxCycles
    /\ \A t, u \in Threads :
           (t # u /\ tmp[t] # None /\ tmp[u] # None) => held[t] # held[u]

\* C11 witness: every thread has finished its cycles on a pool of capacity
\* 1, whose one item was incremented by all of them
NoLostUpdateWitness ==
    /\ \A t \in Users : cycles[t] = MaxCycles /\ pc[t] = "idle"
    /\ max = Some(1)
    /\ val[1] = NumThreads * MaxCycles

\* C12: no lost wake-up: no untimed waiter stays blocked on the condition
\* variable for ever while an item sits in available
NoLostWakeup ==
    \A t \in Threads :
        []<>~(pc[t] = "wait" /\ dur[t] = None /\ available # <<>>)

\* C13: available is a stack: a return puts the item on top, a checkout
\* that finds items free takes the one on top, the most recently returned,
\* and a free item keeps the value it was returned with
LifoReuse ==
    /\ [][ \A t \in Threads :
             (pc[t] \in {"get47", "get56"} /\ pc'[t] = "holding") =>
                 /\ available # <<>>
                 /\ held'[t] = available[Len(available)]
                 /\ available' = SubSeq(available, 1, Len(available) - 1)
                 /\ val'[held'[t]] = val[held'[t]] ]_vars
    /\ [][ \A t \in Threads :
             (pc[t] = "holding" /\ pc'[t] = "put88") =>
                 /\ available' = available \o <<held[t]>>
                 /\ val'[held[t]] = val[held[t]] ]_vars
    /\ [][ \A id \in Ids :
             (Occ(id, available) > 0 /\ Occ(id, available') > 0) =>
                 val'[id] = val[id] ]_vars

\* C13 witness: a thread that never wrote holds the item returned last, with
\* the value another thread wrote, taken while an older item was free
LifoReuseWitness ==
    \E t \in Threads :
        /\ pc[t] = "holding"
        /\ cycles[t] = 0
        /\ held[t] = 2
        /\ val[2] = 1
        /\ available = <<1>>

\* no checkout and no return is under way
Quiet == \A u \in Threads : pc[u] \in {"idle", "holding", "err", "dbg95"}

\* C14: a snapshot shows available.len(), count and max as they are
\* together under its one lock acquisition; on a pool on which nothing was
\* constructed it shows 0, 0 and the capacity, and after k checkouts
\* followed by r returns it shows r free and k constructed
SnapshotConsistent ==
    /\ [][ \A t \in Threads :
             (pc[t] = "dbg95" /\ pc'[t] # "dbg95") =>
                 /\ lock = t
                 /\ snap' = Some(<<Len(available), count, max>>)
                 /\ UNCHANGED poolVars
                 /\ count = 0 => snap' = Some(<<0, 0, max>>)
                 /\ (tally # None /\ Quiet) =>
                        snap' = Some(<<tally[1][2], tally[1][1], max>>) ]_vars
    /\ [][ snap' # snap => \E t \in Threads : pc[t] = "dbg95" /\ pc'[t] = "idle" ]_vars
    /\ [][ \A t \in Threads : pc[t] = "dbg95" => UNCHANGED poolVars ]_vars

\* C14 witness: after two checkouts followed by one return on a pool of
\* capacity 2 the snapshot shows 1 free, 2 constructed, capacity 2
SnapshotConsistentWitness ==
    /\ tally = Some(<<2, 1>>)
    /\ snap = Some(<<1, 2, Some(2)>>)
    /\ Quiet

\* C15: a call returns TimeoutError only with nothing free: available is
\* empty in the state, under the lock, in which the call returns Err
ErrOnlyWhenEmpty ==
    [][ \A t \in Threads :
          (pc[t] # "err" /\ pc'[t] = "err") => (lock = t /\ available = <<>>) ]_vars

\* C16: a thread that runs the factory does not hold the lock, so that,
\* unless a third thread holds it, another thread can then begin a
\* checkout and can return the item it holds
FactoryOutsideLock ==
    \A t \in Threads :
        pc[t] = "get53" =>
            /\ lock # t
            /\ \A u \in Threads \ {t} :
                   /\ (lock = NoThread /\ pc[u] = "idle") => ENABLED Get(u)
                   /\ (lock = NoThread /\ pc[u] = "holding") => ENABLED Drop(u)
                   /\ (pc[u] = "get47" /\ available # <<>>) => ENABLED PopFree(u)

\* C16 witness: while one thread runs the factory, an item returned after
\* it had released the lock is free and a third thread is about to take it
FactoryOutsideLockWitness ==
    \E t, u \in Threads :
        /\ pc[t] = "get53"
        /\ pc[u] = "get47"
        /\ available # <<>>

\* C17: every step leaves count unchanged or adds one to it; the step that
\* adds one is the one that precedes a run of the factory, whose item it
\* counts; the factory's run and the hand-over change count no more, and
\* every item under construction or handed out is counted
CountMonotone ==
    /\ [][ count' = count \/ count' = count + 1 ]_vars
    /\ [][ count' = count + 1 <=>
             \E t \in Threads :
                 pc[t] # "get53" /\ pc'[t] = "get53" /\ held'[t] = count' ]_vars
    /\ [][ \A t \in Threads :
             (pc[t] = "get53" /\ pc'[t] # "get53") =>
                 /\ pc'[t] = "holding"
                 /\ held'[t] = held[t]
                 /\ count' = count ]_vars
    /\ [](\A t \in Threads :
             pc[t] \in {"get53", "holding"} => held[t] \in 1..count)

\* C17 witness: a second item is counted while its factory still runs and
\* the first item is checked out
CountMonotoneWitness ==
    \E t, u \in Threads :
        /\ pc[t] = "get53"
        /\ held[t] = 2
        /\ count = 2
        /\ pc[u] = "holding"
        /\ held[u] = 1

\* C18: every get_timeout call ends: no timed call stays in its wait loop
\* for ever (not even one that no other thread keeps from the lock)
TimedCallEnds ==
    \A t \in Threads :
        []<>~(InWaitBranch(t) /\ dur[t] # None /\ lock \in {NoThread, t})

\* C19: on a pool without a capacity no call is ever in the wait branch and
\* none has returned TimeoutError
UnboundedNeverWaits ==
    max = None =>
        \A t \in Threads :
            pc[t] \notin {"get56", "wait", "woken", "get68", "err"}

\* C19 witness: on a pool without a capacity every other thread holds an
\* item, nothing is free, and a get_timeout(0) has the lock
UnboundedNeverWaitsWitness ==
    \E t \in Threads :
        /\ max = None
        /\ pc[t] = "get47"
        /\ dur[t] = Some(0)
        /\ available = <<>>
        /\ count = NumThreads - 1
        /\ \A u \in Users \ {t} : pc[u] = "holding"

\* C20: count is the number of free items plus the live handles plus the
\* checkouts that have counted an item and not yet wrapped it; every free
\* item is a counted one
SlotConservation ==
    /\ count = Len(available)
                 + Cardinality({t \in Threads : pc[t] = "holding"})
                 + Cardinality({t \in Threads : pc[t] = "get53"})
    /\ \A i \in 1..Len(available) : available[i] \in 1..count

\* C20 witness: of two counted items one is free and one is under
\* construction, and the thread that returned the free one has yet to notify
SlotConservationWitness ==
    \E u, v \in Threads :
        /\ count = 2
        /\ Len(available) = 1
        /\ pc[u] = "get53"
        /\ pc[v] = "put88"

=============================================================================
